---- MODULE Spec2Model ----
(***************************************************************************)
(* Model of the item store service of src/server.js: an in-memory array    *)
(* `items`, the counter `nextId`, and the five route handlers              *)
(* (GET list, GET by id, POST, PUT, DELETE).                               *)
(***************************************************************************)
EXTENDS Integers, Sequences, FiniteSets, TLC

(***************************************************************************)
(* Bounds of the model.                                                    *)
(***************************************************************************)
\* successful creates allowed in one behaviour (caps the counter nextId)
MaxCreates == 2
\* requests that may be in flight together in the concurrent specification
MaxInFlight == 2

(***************************************************************************)
(* JavaScript values that a JSON body can carry for a property.  A value   *)
(* is a record of its type and its text; "undefined" is an absent          *)
(* property.                                                               *)
(***************************************************************************)
Undefined == [t |-> "undefined", v |-> ""]
Str(s) == [t |-> "string", v |-> s]
Num(s) == [t |-> "number", v |-> s]

\* !x of JavaScript is true exactly for these (ToBoolean is false)
Falsy(x) ==
    \/ x.t = "undefined"
    \/ x.t = "null"
    \/ x.t = "string" /\ x.v = ""
    \/ x.t = "number" /\ x.v = "0"
    \/ x.t = "boolean" /\ x.v = "false"

\* a variant that keeps b only when a is absent (a !== undefined ? a : b)
OrElseIfDefined(a, b) == IF a.t = "undefined" THEN b ELSE a

\* a || b of JavaScript
OrElse(a, b) == IF Falsy(a) THEN b ELSE a

(***************************************************************************)
(* The seed store.                                                         *)
(***************************************************************************)
SeedItems ==
    << [id |-> 1, name |-> Str("Item A"), description |-> Str("Description for Item A")],
       [id |-> 2, name |-> Str("Item B"), description |-> Str("Description for Item B")],
       [id |-> 3, name |-> Str("Item C"), description |-> Str("Description for Item C")] >>

RECURSIVE MaxOf(_)
MaxOf(S) ==
    IF S = {} THEN 0
    ELSE LET x == CHOOSE y \in S : TRUE
             m == MaxOf(S \ {x})
         IN  IF x > m THEN x ELSE m

Ids(its) == { its[i].id : i \in 1..Len(its) }

\* let nextId = items.length > 0 ? Math.max(...ids) + 1 : 1
SeedNextId == IF Len(SeedItems) > 0 THEN MaxOf(Ids(SeedItems)) + 1 ELSE 1

(***************************************************************************)
(* parseInt(request.params.id).  A path text is a sequence of characters.  *)
(* parseInt takes an optional sign and then the longest prefix of decimal  *)
(* digits; with no digit there the result is NaN.  (The path texts of the  *)
(* model hold no white space and no 0x prefix.)                            *)
(***************************************************************************)
Digits == <<"0", "1", "2", "3", "4", "5", "6", "7", "8", "9">>

IsDigit(c) == \E k \in 1..10 : Digits[k] = c

DigitVal(c) == (CHOOSE k \in 1..10 : Digits[k] = c) - 1

NaN == [nan |-> TRUE, val |-> 0]

RECURSIVE DigitPrefix(_, _, _)
\* value of the longest digit prefix of s from position i, acc so far
DigitPrefix(s, i, acc) ==
    IF i > Len(s) \/ ~IsDigit(s[i]) THEN acc
    ELSE DigitPrefix(s, i + 1, acc * 10 + DigitVal(s[i]))

ParseInt(s) ==
    LET signed == Len(s) > 0 /\ s[1] \in {"-", "+"}
        start  == IF signed THEN 2 ELSE 1
        mag    == DigitPrefix(s, start, 0)
    IN  IF start > Len(s) \/ ~IsDigit(s[start]) THEN NaN
        ELSE [nan |-> FALSE, val |-> IF signed /\ s[1] = "-" THEN 0 - mag ELSE mag]

\* item.id === id, with id the result of parseInt (NaN equals nothing)
StrictEq(itemId, id) == ~id.nan /\ itemId = id.val

\* items.findIndex(item => item.id === id); 0 stands for -1
FindIndex(its, id) ==
    IF \E i \in 1..Len(its) : StrictEq(its[i].id, id)
    THEN CHOOSE i \in 1..Len(its) :
            /\ StrictEq(its[i].id, id)
            /\ \A j \in 1..(i - 1) : ~StrictEq(its[j].id, id)
    ELSE 0

\* a variant that removes by position, without testing that the id was found
\* (items.splice(items.findIndex(...), 1): position -1 is the last element)
FilterSplice(its, id) ==
    LET k == IF FindIndex(its, id) = 0 THEN Len(its) ELSE FindIndex(its, id)
    IN  [i \in 1..(Len(its) - 1) |-> IF i < k THEN its[i] ELSE its[i + 1]]

\* items.filter(item => item.id !== id)
RECURSIVE Filter(_, _)
Filter(its, id) ==
    IF its = << >> THEN << >>
    ELSE IF StrictEq(Head(its).id, id) THEN Filter(Tail(its), id)
         ELSE << Head(its) >> \o Filter(Tail(its), id)

(***************************************************************************)
(* Requests.  request.body is undefined (no body was sent) or an object    *)
(* with the properties id, name and description, each possibly absent.     *)
(***************************************************************************)
NoBody == [kind |-> "undefined", id |-> Undefined, name |-> Undefined,
           description |-> Undefined]

Body(i, n, d) == [kind |-> "object", id |-> i, name |-> n, description |-> d]

NotFoundReply == [code |-> 404, payload |-> [message |-> "Item not found"]]

\* an exception thrown by a handler is answered 500 by the framework
ThrownReply == [code |-> 500, payload |-> [message |-> "Internal Server Error"]]

Result(its, nid, rep) == [items |-> its, nextId |-> nid, reply |-> rep]

(***************************************************************************)
(* The handlers, each as a function of the store and the request to the    *)
(* store after it and the reply.                                           *)
(***************************************************************************)
\* GET /api/items (the payload is the array, held in a record so that every
\* payload is a record)
GetItems(its, nid) == Result(its, nid, [code |-> 200, payload |-> [list |-> its]])

\* a variant that takes the id for the position in the array (items[id - 1])
GetItemByPosition(its, nid, path) ==
    LET id == ParseInt(path)
    IN  IF ~id.nan /\ id.val \in 1..Len(its)
        THEN Result(its, nid, [code |-> 200, payload |-> its[id.val]])
        ELSE Result(its, nid, NotFoundReply)

\* GET /api/items/:id
GetItem(its, nid, path) ==
    LET id == ParseInt(path)
        k  == FindIndex(its, id)
    IN  IF k # 0 THEN Result(its, nid, [code |-> 200, payload |-> its[k]])
        ELSE Result(its, nid, NotFoundReply)

\* a variant that derives the id from the items present (max id + 1)
AssignIdFromMax(its, nid) == MaxOf(Ids(its)) + 1

\* id: nextId++  (the value the new item gets)
AssignId(its, nid) == nid

\* POST /api/items
PostItem(its, nid, body) ==
    IF body.kind = "undefined" THEN Result(its, nid, ThrownReply)
    ELSE IF Falsy(body.name) \/ Falsy(body.description)
    THEN Result(its, nid,
                [code |-> 400,
                 payload |-> [message |-> "Name and description are required"]])
    ELSE LET newItem == [id |-> AssignId(its, nid), name |-> body.name,
                         description |-> body.description]
         IN  Result(Append(its, newItem), nid + 1,
                    [code |-> 201, payload |-> newItem])

\* a variant that spreads the whole body over the item ({ ...old, ...body })
MergeItemSpreadBody(old, body) ==
    [id |-> IF body.id.t = "number"
            THEN (CHOOSE n \in 1..10 : Digits[n] = body.id.v) - 1
            ELSE old.id,
     name |-> OrElse(body.name, old.name),
     description |-> OrElse(body.description, old.description)]

\* { ...items[itemIndex], name: name || old.name, description: description || old.description }
MergeItem(old, body) ==
    [id |-> old.id,
     name |-> OrElse(body.name, old.name),
     description |-> OrElse(body.description, old.description)]

\* PUT /api/items/:id
PutItem(its, nid, path, body) ==
    LET id == ParseInt(path)
    IN  IF body.kind = "undefined" THEN Result(its, nid, ThrownReply)
        ELSE LET k == FindIndex(its, id)
             IN  IF k # 0
                 THEN LET upd == [its EXCEPT ![k] = MergeItem(its[k], body)]
                      IN  Result(upd, nid, [code |-> 200, payload |-> upd[k]])
                 ELSE Result(its, nid, NotFoundReply)

\* DELETE /api/items/:id
DeleteItem(its, nid, path) ==
    LET id            == ParseInt(path)
        initialLength == Len(its)
        kept          == Filter(its, id)
    IN  IF Len(kept) < initialLength
        THEN Result(kept, nid, [code |-> 204, payload |-> [message |-> ""]])
        ELSE Result(kept, nid, NotFoundReply)

(***************************************************************************)
(* State.  items and nextId are the module-level variables of server.js.   *)
(* req and reply are the request handled last and its response, and before *)
(* is the store as that request found it.  created,                        *)
(* fresh and deleted record what the clients have seen: the ids returned   *)
(* by successful creates, in order; the items as created that no update or *)
(* delete has addressed since; the ids whose delete succeeded.             *)
(***************************************************************************)
VARIABLES items, nextId, req, reply, before, created, fresh, deleted

(***************************************************************************)
(* State of the request dispatch, used by the concurrent specification:    *)
(* calls maps the requests received to what they ask, frame maps the       *)
(* handlers that have started and not yet replied to their position and    *)
(* locals, resp maps the requests answered to their replies.               *)
(***************************************************************************)
VARIABLES calls, frame, resp

seqVars == << req, reply, before, created, fresh, deleted >>

concVars == << calls, frame, resp >>

vars == << items, nextId, req, reply, before, created, fresh, deleted,
          calls, frame, resp >>

(***************************************************************************)
(* Inputs of the requests.                                                 *)
(***************************************************************************)
RECURSIVE Numeral(_)
\* the decimal text of a natural number
Numeral(n) ==
    IF n < 10 THEN << Digits[n + 1] >>
    ELSE Numeral(n \div 10) \o << Digits[(n % 10) + 1] >>

\* the largest id a behaviour can assign
MaxId == SeedNextId + MaxCreates - 1

\* the path texts of the requests: the first seed id, every id a create can
\* assign, one id that is never assigned, and two texts that are not numbers,
\* one of them beginning with the digits of a stored id
NumericPaths == { Numeral(1) } \cup { Numeral(k) : k \in SeedNextId..(MaxId + 1) }

NonNumericPaths == { <<"a", "b", "c">>, <<"1", "a", "b", "c">> }

Paths == NumericPaths \cup NonNumericPaths

NameInputs == { Undefined, Str(""), Num("0"), Str("X") }

DescInputs == { Undefined, Str(""), Num("0"), Str("Y") }

Bodies ==
    {NoBody}
    \cup { Body(Undefined, n, d) : n \in NameInputs, d \in DescInputs }
    \cup { Body(Num("1"), Str("X"), Undefined), Body(Num("2"), Str("X"), Str("Y")) }

NoPath == << >>

Request(route, path, body) == [route |-> route, path |-> path, body |-> body]

Init ==
    /\ items = SeedItems
    /\ nextId = SeedNextId
    /\ req = Request("none", NoPath, NoBody)
    /\ reply = [code |-> 0, payload |-> [message |-> ""]]
    /\ before = [items |-> SeedItems, nextId |-> SeedNextId]
    /\ created = << >>
    /\ fresh = {}
    /\ deleted = {}
    /\ calls = << >>
    /\ frame = << >>
    /\ resp = << >>

\* the store and the reply after a handler has run
Commit(res) ==
    /\ before' = [items |-> items, nextId |-> nextId]
    /\ items' = res.items
    /\ nextId' = res.nextId
    /\ reply' = res.reply

\* the items of set S that the id parsed from path does not address
NotAddressed(S, path) == { it \in S : ~StrictEq(it.id, ParseInt(path)) }

List ==
    /\ Commit(GetItems(items, nextId))
    /\ req' = Request("list", NoPath, NoBody)
    /\ UNCHANGED << created, fresh, deleted >>
    /\ UNCHANGED concVars

Get(path) ==
    /\ Commit(GetItem(items, nextId, path))
    /\ req' = Request("get", path, NoBody)
    /\ UNCHANGED << created, fresh, deleted >>
    /\ UNCHANGED concVars

Create(body) ==
    LET res == PostItem(items, nextId, body)
    IN  /\ res.reply.code = 201 => Len(created) < MaxCreates
        /\ Commit(res)
        /\ req' = Request("create", NoPath, body)
        /\ created' = IF res.reply.code = 201
                      THEN Append(created, res.reply.payload.id) ELSE created
        /\ fresh' = IF res.reply.code = 201
                    THEN fresh \cup { [id |-> res.reply.payload.id, name |-> body.name,
                                        description |-> body.description] }
                    ELSE fresh
        /\ UNCHANGED deleted
        /\ UNCHANGED concVars

Update(path, body) ==
    /\ Commit(PutItem(items, nextId, path, body))
    /\ req' = Request("update", path, body)
    /\ fresh' = NotAddressed(fresh, path)
    /\ UNCHANGED << created, deleted >>
    /\ UNCHANGED concVars

Delete(path) ==
    LET res == DeleteItem(items, nextId, path)
    IN  /\ Commit(res)
        /\ req' = Request("delete", path, NoBody)
        /\ fresh' = NotAddressed(fresh, path)
        /\ deleted' = IF res.reply.code = 204
                      THEN deleted \cup {ParseInt(path).val} ELSE deleted
        /\ UNCHANGED created
        /\ UNCHANGED concVars

Next ==
    \/ List
    \/ \E path \in Paths : Get(path)
    \/ \E body \in Bodies : Create(body)
    \/ \E path \in Paths, body \in Bodies : Update(path, body)
    \/ \E path \in Paths : Delete(path)

Spec == Init /\ [][Next]_vars

(***************************************************************************)
(* The concurrent specification.  Several requests are in flight together; *)
(* the event loop dispatches a received request to its handler, and a      *)
(* handler runs statement by statement.  A handler gives up the thread     *)
(* only where it awaits, and the handlers of server.js await nowhere.      *)
(***************************************************************************)
RIds == 1..MaxInFlight

ConcPaths == { Numeral(1), Numeral(SeedNextId) }

ConcBodies == { NoBody,
                Body(Undefined, Str("X"), Str("Y")),
                Body(Undefined, Str("X"), Undefined) }

ConcRequests ==
    { Request("list", NoPath, NoBody) }
    \cup { Request("get", p, NoBody) : p \in ConcPaths }
    \cup { Request("delete", p, NoBody) : p \in ConcPaths }
    \cup { Request("create", NoPath, b) : b \in ConcBodies }
    \cup { Request("update", p, b) : p \in ConcPaths, b \in ConcBodies }

\* a variant in which every statement of a handler is followed by an await
YieldsEverywhere(pc) == TRUE

\* whether a handler at statement pc is suspended at an await: the handlers
\* are async functions without any await, so never
Yields(pc) == FALSE

\* the thread is free for request rid: every other started handler is
\* suspended
ThreadFreeFor(rid) ==
    \A r \in DOMAIN frame : r # rid => Yields(frame[r].pc)

InitConc ==
    /\ Init

Locals(pc) == [pc |-> pc, k |-> 0, id |-> 0, len |-> 0]

\* a request arrives; the requests of a behaviour all arrive before the
\* first handler starts, so they are in flight together
Receive(rid, request) ==
    /\ rid \notin DOMAIN calls
    /\ \A r \in 1..(rid - 1) : r \in DOMAIN calls
    /\ DOMAIN frame = {} /\ DOMAIN resp = {}
    /\ calls' = calls @@ (rid :> request)
    /\ UNCHANGED << items, nextId, frame, resp >>
    /\ UNCHANGED seqVars

\* the event loop calls the handler of a received request
Dispatch(rid) ==
    /\ rid \in DOMAIN calls
    /\ rid \notin DOMAIN frame /\ rid \notin DOMAIN resp
    /\ ThreadFreeFor(rid)
    /\ frame' = frame @@ (rid :> Locals("start"))
    /\ UNCHANGED << items, nextId, calls, resp >>
    /\ UNCHANGED seqVars

\* the handler of rid replies and ends
Finish(rid, rep) ==
    /\ resp' = resp @@ (rid :> rep)
    /\ frame' = [r \in DOMAIN frame \ {rid} |-> frame[r]]

\* the handler of rid moves to statement pc with locals f
Goto(rid, f) == /\ frame' = [frame EXCEPT ![rid] = f]
                /\ UNCHANGED resp

Running(rid, route) ==
    /\ rid \in DOMAIN frame
    /\ calls[rid].route = route
    /\ ThreadFreeFor(rid)

\* GET /api/items: return items
StepList(rid) ==
    /\ Running(rid, "list")
    /\ Finish(rid, GetItems(items, nextId).reply)
    /\ UNCHANGED << items, nextId, calls >>
    /\ UNCHANGED seqVars

\* GET /api/items/:id: find and reply
StepGet(rid) ==
    /\ Running(rid, "get")
    /\ Finish(rid, GetItem(items, nextId, calls[rid].path).reply)
    /\ UNCHANGED << items, nextId, calls >>
    /\ UNCHANGED seqVars

\* POST /api/items: destructure and validate; read nextId; write nextId;
\* push and reply
StepCreate(rid) ==
    LET f == frame[rid]
        body == calls[rid].body
    IN  /\ Running(rid, "create")
        /\ CASE f.pc = "start" ->
                  /\ IF body.kind = "undefined" THEN Finish(rid, ThrownReply)
                     ELSE IF Falsy(body.name) \/ Falsy(body.description)
                     THEN Finish(rid, PostItem(items, nextId, body).reply)
                     ELSE Goto(rid, [f EXCEPT !.pc = "readId"])
                  /\ UNCHANGED << items, nextId >>
             [] f.pc = "readId" ->
                  /\ Goto(rid, [f EXCEPT !.pc = "writeId", !.id = AssignId(items, nextId)])
                  /\ UNCHANGED << items, nextId >>
             [] f.pc = "writeId" ->
                  /\ nextId' = f.id + 1
                  /\ Goto(rid, [f EXCEPT !.pc = "push"])
                  /\ UNCHANGED items
             [] f.pc = "push" ->
                  LET newItem == [id |-> f.id, name |-> body.name,
                                  description |-> body.description]
                  IN  /\ items' = Append(items, newItem)
                      /\ Finish(rid, [code |-> 201, payload |-> newItem])
                      /\ UNCHANGED nextId
        /\ UNCHANGED calls
        /\ UNCHANGED seqVars

\* PUT /api/items/:id: destructure and findIndex; write items[itemIndex];
\* return items[itemIndex]
StepUpdate(rid) ==
    LET f == frame[rid]
        body == calls[rid].body
    IN  /\ Running(rid, "update")
        /\ CASE f.pc = "start" ->
                  LET k == FindIndex(items, ParseInt(calls[rid].path))
                  IN  /\ IF body.kind = "undefined" THEN Finish(rid, ThrownReply)
                         ELSE IF k = 0 THEN Finish(rid, NotFoundReply)
                         ELSE Goto(rid, [f EXCEPT !.pc = "write", !.k = k])
                      /\ UNCHANGED << items, nextId >>
             [] f.pc = "write" ->
                  \* items[itemIndex] is undefined beyond the end of the array,
                  \* and reading a property of it throws
                  /\ IF f.k <= Len(items)
                     THEN /\ items' = [items EXCEPT ![f.k] = MergeItem(items[f.k], body)]
                          /\ Goto(rid, [f EXCEPT !.pc = "return"])
                     ELSE /\ Finish(rid, ThrownReply)
                          /\ UNCHANGED items
                  /\ UNCHANGED nextId
             [] f.pc = "return" ->
                  /\ IF f.k <= Len(items)
                     THEN Finish(rid, [code |-> 200, payload |-> items[f.k]])
                     ELSE Finish(rid, [code |-> 200, payload |-> [message |-> ""]])
                  /\ UNCHANGED << items, nextId >>
        /\ UNCHANGED calls
        /\ UNCHANGED seqVars

\* DELETE /api/items/:id: read the length; filter; compare and reply
StepDelete(rid) ==
    LET f == frame[rid]
    IN  /\ Running(rid, "delete")
        /\ CASE f.pc = "start" ->
                  /\ Goto(rid, [f EXCEPT !.pc = "filter", !.len = Len(items)])
                  /\ UNCHANGED << items, nextId >>
             [] f.pc = "filter" ->
                  /\ items' = Filter(items, ParseInt(calls[rid].path))
                  /\ Goto(rid, [f EXCEPT !.pc = "compare"])
                  /\ UNCHANGED nextId
             [] f.pc = "compare" ->
                  /\ IF Len(items) < f.len
                     THEN Finish(rid, [code |-> 204, payload |-> [message |-> ""]])
                     ELSE Finish(rid, NotFoundReply)
                  /\ UNCHANGED << items, nextId >>
        /\ UNCHANGED calls
        /\ UNCHANGED seqVars

NextConc ==
    \/ \E rid \in RIds, request \in ConcRequests : Receive(rid, request)
    \/ \E rid \in RIds : Dispatch(rid)
    \/ \E rid \in RIds : StepList(rid)
    \/ \E rid \in RIds : StepGet(rid)
    \/ \E rid \in RIds : StepCreate(rid)
    \/ \E rid \in RIds : StepUpdate(rid)
    \/ \E rid \in RIds : StepDelete(rid)

SpecConc == InitConc /\ [][NextConc]_vars

(***************************************************************************)
(* Properties of the sequential store (specification Spec).                *)
(***************************************************************************)
\* the id the request handled last addressed
ReqId == ParseInt(req.path)

\* a path text that is a number: one or more decimal digits
IsNumeric(path) == Len(path) > 0 /\ \A i \in 1..Len(path) : IsDigit(path[i])

\* a property value that is missing or the empty text
EmptyOrMissing(x) == x.t \in {"undefined", "null"} \/ (x.t = "string" /\ x.v = "")

\* sequence s without its k-th element
Without(s, k) == [i \in 1..(Len(s) - 1) |-> IF i < k THEN s[i] ELSE s[i + 1]]

\* C1: the ids returned by successful creates are strictly increasing in the
\* order of the creates, and none of them is an id assigned before (a seed id
\* or the id of an earlier create, deleted since or not).
C1_CreatedIdsIncrease ==
    /\ \A i, j \in 1..Len(created) : i < j => created[i] < created[j]
    /\ \A i \in 1..Len(created) : created[i] \notin Ids(SeedItems)

\* a create has just succeeded after the item with the largest id, itself
\* created earlier, was deleted
C1_Witness ==
    /\ req.route = "create" /\ reply.code = 201
    /\ Len(created) = 2
    /\ created[1] \in deleted

\* C2: the ids of the items in the collection are pairwise distinct.
C2_IdsDistinct ==
    \A i, j \in 1..Len(items) : i # j => items[i].id # items[j].id

\* an update whose body carries the id of another stored item has succeeded
C2_Witness ==
    /\ req.route = "update" /\ reply.code = 200
    /\ req.body.id = Num("1")
    /\ reply.payload.id # 1
    /\ 1 \in Ids(items)

\* the create handled last lacked a name or a description
MissingField == EmptyOrMissing(req.body.name) \/ EmptyOrMissing(req.body.description)

\* the request handled last left the store as it found it
StoreUnchanged == items = before.items /\ nextId = before.nextId

\* position, in the store as the request handled last found it, of the item
\* that request addressed (0: none)
Addressed == FindIndex(before.items, ReqId)

\* C3: a create request whose name or description is absent or empty is
\* answered 400 and changes neither the collection nor the counter.
C3_MissingFieldRejected ==
    (req.route = "create" /\ MissingField)
    => (reply.code = 400 /\ StoreUnchanged)

\* C3 for the requests that carry a body object: this part holds.
C3_MissingFieldRejectedWithBody ==
    (req.route = "create" /\ req.body.kind = "object" /\ MissingField)
    => (reply.code = 400 /\ StoreUnchanged)

\* what C4 says of an update of the item at position k
UpdateEffect(k) ==
    /\ reply.code = 200
    /\ Len(items) = Len(before.items)
    /\ items[k].id = before.items[k].id
    /\ items[k].name =
          IF Falsy(req.body.name) THEN before.items[k].name ELSE req.body.name
    /\ items[k].description =
          IF Falsy(req.body.description) THEN before.items[k].description
          ELSE req.body.description
    /\ \A j \in 1..Len(items) : j # k => items[j] = before.items[j]
    /\ nextId = before.nextId
    /\ reply.payload = items[k]

\* C4: an update of an id present in the store replaces exactly the fields
\* supplied with a non-falsy value, leaves the id, the position, the other
\* items and the counter unchanged, and returns the item as stored.
C4_UpdateReplacesSupplied ==
    (req.route = "update" /\ Addressed # 0) => UpdateEffect(Addressed)

\* C4 for the requests that carry a body object: this part holds.
C4_UpdateReplacesSuppliedWithBody ==
    (req.route = "update" /\ req.body.kind = "object" /\ Addressed # 0)
    => UpdateEffect(Addressed)

\* C5: a delete of an id that no item has is answered 404 and leaves the
\* collection (length, items, order) and the counter unchanged.
C5_DeleteAbsentIsNotFound ==
    (req.route = "delete" /\ Addressed = 0)
    => (reply.code = 404 /\ StoreUnchanged)

\* a delete of the id of an item deleted before has been answered 404 while
\* the store holds other items
C5_Witness ==
    /\ req.route = "delete" /\ reply.code = 404
    /\ ~ReqId.nan /\ ReqId.val \in deleted
    /\ Len(items) >= 3

\* the request handled last addressed an id whose delete had succeeded before
AddressedDeleted == ~ReqId.nan /\ ReqId.val \in deleted /\ Addressed = 0

\* a delete of an id present is answered 204 and removes exactly that record
DeleteEffect ==
    (req.route = "delete" /\ Addressed # 0)
    => (reply.code = 204 /\ items = Without(before.items, Addressed)
        /\ nextId = before.nextId)

\* C6: a delete of an id present is answered 204 and removes exactly that
\* record, the rest staying as it was and in order, the counter unchanged;
\* every later get, update or delete of that id is answered 404.
C6_DeleteRemovesOne ==
    /\ DeleteEffect
    /\ (req.route \in {"get", "update", "delete"} /\ AddressedDeleted)
          => reply.code = 404

\* C6 with the later updates limited to those that carry a body object: this
\* part holds.
C6_DeleteRemovesOneWithBody ==
    /\ DeleteEffect
    /\ (req.route \in {"get", "update", "delete"} /\ AddressedDeleted
        /\ (req.route = "update" => req.body.kind = "object"))
          => reply.code = 404

\* C7: a get of an id that a create returned, with no update or delete of
\* that id since, is answered 200 with that id and the name and description
\* passed to the create.
C7_GetAfterCreate ==
    \A it \in fresh :
        (req.route = "get" /\ StrictEq(it.id, ReqId))
        => (reply.code = 200 /\ reply.payload = it)

\* a get has returned a created item that is no longer at the position equal
\* to its id (an item before it was deleted in between)
C7_Witness ==
    /\ req.route = "get" /\ reply.code = 200
    /\ reply.payload \in fresh
    /\ reply.payload.id > Len(items)

\* C8: a get, update or delete whose path id is not a number is answered 404
\* and leaves the store unchanged.
C8_NonNumericIsNotFound ==
    (req.route \in {"get", "update", "delete"} /\ ~IsNumeric(req.path))
    => (reply.code = 404 /\ StoreUnchanged)

\* C8 for the path texts that do not begin with a digit, and updates that
\* carry a body object: this part holds.
C8_NoLeadingDigitIsNotFound ==
    (req.route \in {"get", "update", "delete"} /\ ParseInt(req.path).nan
     /\ (req.route = "update" => req.body.kind = "object"))
    => (reply.code = 404 /\ StoreUnchanged)

\* C10: every item in the collection has a name and a description that are
\* neither missing nor empty.
C10_FieldsNonEmpty ==
    \A i \in 1..Len(items) :
        ~EmptyOrMissing(items[i].name) /\ ~EmptyOrMissing(items[i].description)

\* an update supplying the empty text for the name and nothing for the
\* description has succeeded
C10_Witness ==
    /\ req.route = "update" /\ reply.code = 200
    /\ req.body.name = Str("") /\ req.body.description = Undefined

(***************************************************************************)
(* Properties of the concurrent store (specification SpecConc).            *)
(***************************************************************************)
\* the handler of a request, as one step
Apply(its, nid, request) ==
    CASE request.route = "list" -> GetItems(its, nid)
      [] request.route = "get" -> GetItem(its, nid, request.path)
      [] request.route = "create" -> PostItem(its, nid, request.body)
      [] request.route = "update" -> PutItem(its, nid, request.path, request.body)
      [] request.route = "delete" -> DeleteItem(its, nid, request.path)

\* the orders in which the requests of set S can be run one after another
Orders(S) ==
    { o \in [1..Cardinality(S) -> S] :
        \A i, j \in 1..Cardinality(S) : i # j => o[i] # o[j] }

RECURSIVE SerialRun(_, _, _, _)
\* running the requests o[i], o[i+1], ... one after another from the store
\* (its, nid) gives the replies recorded and ends in the current store
SerialRun(o, i, its, nid) ==
    IF i > Len(o) THEN its = items /\ nid = nextId
    ELSE LET r == Apply(its, nid, calls[o[i]])
         IN  /\ r.reply.code = resp[o[i]].code
             /\ r.reply.payload = resp[o[i]].payload
             /\ SerialRun(o, i + 1, r.items, r.nextId)

\* C9: whenever no handler is mid-way, the collection, the counter and every
\* reply given are those of some serial order of the requests answered; two
\* creates in flight together never get the same id.
C9_Serializable ==
    /\ (DOMAIN frame = {})
          => \E o \in Orders(DOMAIN resp) : SerialRun(o, 1, SeedItems, SeedNextId)
    /\ \A r1, r2 \in DOMAIN resp :
          (r1 # r2 /\ resp[r1].code = 201 /\ resp[r2].code = 201)
          => resp[r1].payload.id # resp[r2].payload.id

\* two creates that were in flight together have both succeeded
C9_Witness ==
    /\ DOMAIN frame = {}
    /\ \E r1, r2 \in DOMAIN resp :
          r1 # r2 /\ resp[r1].code = 201 /\ resp[r2].code = 201

====
